---- MODULE Spec2Model ----
(***************************************************************************)
(* Model of the Sinara Stabilizer server (src/stabilizer_server/server.py):*)
(* the filter design helper FilterLibrary, the payload builders and the    *)
(* RPC coroutines of SinaraStabilizerServer, each of which is a sequence   *)
(* of awaited remote writes (self._dev.set) that other coroutines of the   *)
(* same event loop may interleave with.                                    *)
(*                                                                         *)
(* Numbers.  A Python number is modelled exactly, as a rational            *)
(* [p |-> numerator, q |-> denominator > 0] in lowest terms.  A caller's   *)
(* argument is [kind |-> "num", p, q] or [kind |-> "str"], a string that   *)
(* float() and int() reject.  An int of the program (the result of int())  *)
(* is a TLA+ integer; a float of the program (the result of float()) is a  *)
(* rational record.  A float that is not finite has denominator 0: 0/0 is  *)
(* NaN, 1/0 and -1/0 are the infinities (float() accepts them, also        *)
(* written as the strings "nan" and "inf").                                *)
(***************************************************************************)
EXTENDS Integers, Sequences, FiniteSets, TLC

\* Number of RPC calls (coroutines) that may be in flight on one server.
NTasks == 2
\* Longest coefficient list a caller passes to apply_raw_filter.
MaxBaLen == 6

Tasks == 1..NTasks

(***************************************************************************)
(* Rational arithmetic                                                     *)
(***************************************************************************)
Abs(n) == IF n < 0 THEN -n ELSE n

RECURSIVE GCD(_, _)
GCD(a, b) == IF b = 0 THEN a ELSE GCD(b, a % b)

Rat(p, q) ==
    LET d == GCD(Abs(p), Abs(q))
        sg == IF q < 0 THEN -1 ELSE 1
    IN  [p |-> (sg * p) \div d, q |-> (sg * q) \div d]

RAdd(a, b) == Rat(a.p * b.q + b.p * a.q, a.q * b.q)
RMul(a, b) == Rat(a.p * b.p, a.q * b.q)
RNeg(a) == [p |-> -a.p, q |-> a.q]
RDiv(a, b) == Rat(a.p * b.q, a.q * b.p)

(***************************************************************************)
(* Caller-supplied values and Python's float() / int()                     *)
(***************************************************************************)
Num(p, q) == [kind |-> "num", p |-> p, q |-> q]
Str == [kind |-> "str", p |-> 0, q |-> 1]

\* A value or the exception raised while computing it.
Ok(v) == [exc |-> "none", val |-> v]
Exc(e) == [exc |-> e, val |-> 0]

NoneValue == [kind |-> "none", p |-> 0, q |-> 1]

\* float("nan") and float("inf"), as a caller may pass them.
NaN == Num(0, 0)
Inf == Num(1, 0)
\* math.isfinite(f) for a float f
IsFinite(f) == f.q # 0

\* The exception float() and int() raise for a value that is not a number:
\* ValueError for a non-numeric string, TypeError for None.
ConvError(x) == IF x.kind = "none" THEN "TypeError" ELSE "ValueError"

\* float(x): the same number as a float.
PyFloat(x) ==
    IF x.kind = "num" THEN Ok([p |-> x.p, q |-> x.q]) ELSE Exc(ConvError(x))

\* int(x): truncation toward zero; ValueError for NaN, OverflowError for an
\* infinity.
PyInt(x) ==
    IF x.kind # "num" THEN Exc(ConvError(x))
    ELSE IF x.q = 0 THEN Exc(IF x.p = 0 THEN "ValueError" ELSE "OverflowError")
    ELSE Ok(IF x.p < 0 THEN -((-x.p) \div x.q) ELSE x.p \div x.q)

\* [float(x) for x in xs]: the first failing conversion raises.
FloatList(xs) ==
    LET failing == {i \in 1..Len(xs) : PyFloat(xs[i]).exc # "none"}
        first == CHOOSE i \in failing : \A j \in failing : i <= j
    IN  IF failing # {} THEN PyFloat(xs[first])
        ELSE Ok([i \in 1..Len(xs) |-> PyFloat(xs[i]).val])

(***************************************************************************)
(* StabilizerParameters and the parameters dictionary                      *)
(***************************************************************************)
DefaultLow == -6553
DefaultHigh == 6553

\* self.parameters: a dictionary keyed by parameter name.
DefaultParameters ==
    [k \in {"low_voltage_limit", "high_voltage_limit"} |->
        IF k = "low_voltage_limit" THEN Num(DefaultLow, 1) ELSE Num(DefaultHigh, 1)]

\* What config_handler.load() may return: None, or a stored dictionary,
\* which holds whatever was saved (possibly without one of the limits,
\* or with a limit that is not an integer).
NoneLoaded == [none |-> TRUE, dict |-> <<>>]
Loaded(d) == [none |-> FALSE, dict |-> d]
StoredDicts ==
    { [k \in {"low_voltage_limit", "high_voltage_limit"} |->
          IF k = "low_voltage_limit" THEN Num(-5, 2) ELSE Num(3, 1)],
      [k \in {"high_voltage_limit"} |-> Num(3, 1)] }
LoadResults == {NoneLoaded} \cup {Loaded(d) : d \in StoredDicts}

\* _load_config: the loaded dictionary, or the defaults when load() gave None.
LoadConfig(loaded) == IF loaded.none THEN DefaultParameters ELSE loaded.dict

\* d[k]: KeyError when the key is absent.
Lookup(d, k) == IF k \in DOMAIN d THEN Ok(d[k]) ELSE Exc("KeyError")

(***************************************************************************)
(* FilterLibrary: symbolic expressions                                     *)
(*                                                                         *)
(* A sympy expression is a tree: a rational constant, a symbol, or a sum,  *)
(* product or quotient of two expressions.  The constructors fold the      *)
(* constants 0 and 1 the way sympy's automatic evaluation does.            *)
(***************************************************************************)
Const(p, q) == [t |-> "const", v |-> Rat(p, q)]
Sym(s) == [t |-> "sym", s |-> s]
IsConst(e, n) == e.t = "const" /\ e.v = Rat(n, 1)

Add(a, b) ==
    IF IsConst(a, 0) THEN b
    ELSE IF IsConst(b, 0) THEN a
    ELSE IF a.t = "const" /\ b.t = "const" THEN [t |-> "const", v |-> RAdd(a.v, b.v)]
    ELSE [t |-> "add", a |-> a, b |-> b]

Mul(a, b) ==
    IF IsConst(a, 0) \/ IsConst(b, 0) THEN Const(0, 1)
    ELSE IF IsConst(a, 1) THEN b
    ELSE IF IsConst(b, 1) THEN a
    ELSE IF a.t = "const" /\ b.t = "const" THEN [t |-> "const", v |-> RMul(a.v, b.v)]
    ELSE [t |-> "mul", a |-> a, b |-> b]

Div(a, b) ==
    IF IsConst(a, 0) THEN Const(0, 1)
    ELSE IF IsConst(b, 1) THEN a
    ELSE [t |-> "div", a |-> a, b |-> b]

Neg(a) == Mul(Const(-1, 1), a)

\* expr.free_symbols
RECURSIVE FreeSymbols(_)
FreeSymbols(e) ==
    CASE e.t = "const" -> {}
      [] e.t = "sym" -> {e.s}
      [] OTHER -> FreeSymbols(e.a) \cup FreeSymbols(e.b)

\* expr.evalf(subs=p): the value of e with every symbol s replaced by p[s];
\* "ZeroDivision" marks a quotient whose denominator evaluates to zero.
RECURSIVE Evalf(_, _)
Evalf(e, p) ==
    CASE e.t = "const" -> Ok(e.v)
      [] e.t = "sym" -> Ok(p[e.s])
      [] OTHER ->
           LET x == Evalf(e.a, p)
               y == Evalf(e.b, p)
           IN  IF x.exc # "none" THEN x
               ELSE IF y.exc # "none" THEN y
               ELSE IF e.t = "add" THEN Ok(RAdd(x.val, y.val))
               ELSE IF e.t = "mul" THEN Ok(RMul(x.val, y.val))
               ELSE IF y.val.p = 0 THEN Exc("ZeroDivision")
               ELSE Ok(RDiv(x.val, y.val))

(***************************************************************************)
(* FilterLibrary.library and get_ba_sym                                    *)
(*                                                                         *)
(* Every prototype is a first-order rational function of                   *)
(* x = s / (2 pi f0):  H = (n0 + n1 x) / (d0 + d1 x), with n0, n1, d0, d1  *)
(* expressions in K and g.                                                 *)
(***************************************************************************)
K == Sym("K")
g == Sym("g")
F0 == Sym("F0")

library ==
    [name \in {"LP", "HP", "AP", "I", "PI", "P", "PD"} |->
        CASE name = "LP" -> [n0 |-> K, n1 |-> Const(0, 1), d0 |-> Const(1, 1), d1 |-> Const(1, 1)]
          [] name = "HP" -> [n0 |-> Const(0, 1), n1 |-> K, d0 |-> Const(1, 1), d1 |-> Const(1, 1)]
          [] name = "AP" -> [n0 |-> Neg(K), n1 |-> K, d0 |-> Const(1, 1), d1 |-> Const(1, 1)]
          [] name = "I"  -> [n0 |-> K, n1 |-> Const(0, 1), d0 |-> Const(0, 1), d1 |-> Const(1, 1)]
          [] name = "PI" -> [n0 |-> K, n1 |-> K, d0 |-> Div(Const(1, 1), g), d1 |-> Const(1, 1)]
          [] name = "P"  -> [n0 |-> K, n1 |-> Const(0, 1), d0 |-> Const(1, 1), d1 |-> Const(0, 1)]
          [] name = "PD" -> [n0 |-> K, n1 |-> K, d0 |-> Const(1, 1), d1 |-> Div(Const(1, 1), g)]]

names == DOMAIN library

\* Hq: H with s replaced by 2/Ts (1-q)/(1+q) and pi f0 Ts by F0, i.e. with
\* x = (1-q) / ((1+q) F0), brought to one fraction of polynomials in q.
\* The result is <<b, a>>, the coefficient lists (orders 0..2 of q) of
\* numerator and denominator.  A prototype without s is left as it is.
Bilinear(H) ==
    IF IsConst(H.n1, 0) /\ IsConst(H.d1, 0)
    THEN << <<H.n0, Const(0, 1), Const(0, 1)>>, <<H.d0, Const(0, 1), Const(0, 1)>> >>
    ELSE << <<Add(Mul(H.n0, F0), H.n1), Add(Mul(H.n0, F0), Neg(H.n1)), Const(0, 1)>>,
            <<Add(Mul(H.d0, F0), H.d1), Add(Mul(H.d0, F0), Neg(H.d1)), Const(0, 1)>> >>

\* a_coeffs = [-a.coeff(q, n)/a0 for n in range(1,3)]
a_coeffs(a) == [n \in 1..2 |-> Neg(Div(a[n + 1], a[1]))]

\* b_coeffs = [b.coeff(q, n)/a0 for n in range(3)]
b_coeffs(b, a) == [n \in 1..3 |-> Div(b[n], a[1])]

\* A variant that returns the feedback coefficients first (a_coeffs + b_coeffs).
CoefficientsFeedbackFirst(Hq) == Ok(a_coeffs(Hq[2]) \o b_coeffs(Hq[1], Hq[2]))

\* return b_coeffs + a_coeffs
Coefficients(Hq) == Ok(b_coeffs(Hq[1], Hq[2]) \o a_coeffs(Hq[2]))

\* get_ba_sym(name): b_coeffs + a_coeffs; KeyError for a name not in library.
get_ba_sym(name) ==
    IF name \notin names THEN Exc("KeyError")
    ELSE Coefficients(Bilinear(library[name]))

\* StabilizerParameters.Ts = 128 / 100e6
Ts == Num(128, 100000000)

\* params with params["Ts"] defaulted
WithTs(params) ==
    [k \in DOMAIN params \cup {"Ts"} |-> IF k \in DOMAIN params THEN params[k] ELSE Ts]

\* syms = set.union(*(expr.free_symbols for expr in ba))
SymbolsOf(ba) == UNION {FreeSymbols(ba[i]) : i \in 1..Len(ba)}

\* [float(v) for v in ev]: the evaluated coefficients as floats, or the
\* failure of the first evaluation that is undefined.
Floats(ev) ==
    IF \E i \in 1..Len(ev) : ev[i].exc # "none" THEN Exc("ZeroDivision")
    ELSE Ok([i \in 1..Len(ev) |-> ev[i].val])

\* A variant of the substitution that asks for a value of every parameter
\* the library declares, referenced by the expressions or not.
SubstituteDeclared(ba, params, syms) ==
    IF \E s \in {"K", "F0", "g"} : s \notin DOMAIN params THEN Exc("KeyError")
    ELSE IF \E s \in syms : params[s].kind # "num" THEN Exc("TypeError")
    ELSE Floats([i \in 1..Len(ba) |->
                   Evalf(ba[i], [s \in syms |-> [p |-> params[s].p, q |-> params[s].q]])])

\* p = {s: params[str(s)] for s in syms}, then expr.evalf(subs=p) for each
\* expression: KeyError for a referenced symbol without a value, TypeError
\* when a supplied value is not a number (the expression stays symbolic and
\* float() rejects it).
Substitute(ba, params, syms) ==
    IF \E s \in syms : s \notin DOMAIN params THEN Exc("KeyError")
    ELSE IF \E s \in syms : params[s].kind # "num" THEN Exc("TypeError")
    ELSE Floats([i \in 1..Len(ba) |->
                   Evalf(ba[i], [s \in syms |-> [p |-> params[s].p, q |-> params[s].q]])])

\* The body of get_ba once get_ba_sym has returned or raised.
EvalBa(sym, params) ==
    IF sym.exc # "none" THEN sym
    ELSE Substitute(sym.val, params, SymbolsOf(sym.val))

\* get_ba(name, **params): the five coefficients as floats, or the exception.
get_ba(name, params) == EvalBa(get_ba_sym(name), WithTs(params))

(***************************************************************************)
(* SinaraStabilizerServer: state                                           *)
(***************************************************************************)
VARIABLES
    phase,       \* "constructed" until the async context is entered, then "connected"
    parameters,  \* self.parameters
    call,        \* call[t]: the RPC method task t runs and its arguments
    pc,          \* pc[t]: 0 = not called; i = at statement i of its method (the
                 \* statement it runs next or, once it has ended, stopped at)
    sent,        \* sent[t]: the remote writes task t has issued, in order
    signals,     \* signals[t]: the events task t has passed to send_signal
    result,      \* result[t]: how the call ended, as its caller sees it
    dev,         \* dev[path]: <<v>> when v is the last value the device
                 \* acknowledged for path, <<>> when nothing was written yet
    \* the connection lifecycle (__asynccontextmanager__)
    connected,   \* self._connected
    notified,    \* the on_connection_state values passed to send_signal, in order
    tries,       \* how often the try block was entered
    saves,       \* how often config_handler.save(self.parameters) completed
    sessions,    \* how often the context manager was entered
    cause,       \* why the context is being (or was last) left
    status,      \* what the last get_connection_status() returned, and when
    \* FilterLibrary.get_ba_sym's lru_cache
    cache,       \* cache[name]: <<r>> when r is cached for name, else <<>>
    derived,     \* derived[name]: how often the body of get_ba_sym ran the
                 \* bilinear transform for name
    got,         \* got[t]: what task t's last get_ba_sym / get_ba call returned
    ev,          \* the last get_ba call of a single caller and what it returned
    \* StabilizerMirror and the update feed of AsyncMiniconfClient
    tree,        \* StabilizerMirror._tree
    writes,      \* the update_subtree calls that returned, in order
    out,         \* the last mirror call of the single caller and its result
    callback,    \* AsyncMiniconfClient._update_callback is set
    subscribed,  \* connect() has run: the client passes updates to _handle_update
    device,      \* device[p]: the device's own value at leaf path p
    queue,       \* the updates the device reported, not yet handled
    changed,     \* the paths for which the device reported a change
    nchanges,    \* how often the device changed
    cb,          \* the update_subtree call running in the client's callback thread
    rd,          \* the get call running in the reader's thread
    obs,         \* what the reader's last get / get_full_tree observed
    \* Stabilizer, the MQTT server of src/_sinara_stabilizer/server.py
    mqtt_client, \* self._mqtt_client is set (the MQTT thread has created the client)
    published,   \* the voltage-limit payloads passed to publish, in order
    limits       \* the last set_voltage_limits call and how it ended

\* The state of the RPC calls and of the device they configure.
rpcVars == <<call, pc, sent, signals, result, dev>>
\* The state of the connection lifecycle besides phase and parameters.
lifeVars == <<connected, notified, tries, saves, sessions, cause, status>>

\* The state of the filter library.
cacheVars == <<cache, derived, got, ev>>

\* The state of the update feed, and of the mirror with its feed.
feedVars == <<callback, subscribed, device, queue, changed, nchanges, cb, rd, obs>>
mirrorVars == <<tree, writes, out, feedVars>>

\* Stabilizer (src/_sinara_stabilizer/server.py)
limitVars == <<mqtt_client, published, limits>>

vars == <<phase, parameters, rpcVars, lifeVars, cacheVars, mirrorVars, limitVars>>

\* config.channel is fixed for a server; the model's server drives channel 0.
RunPath == "/ch/0/run"
TypPath == "/ch/0/biquad/0/typ"
RawPath == "/ch/0/biquad/0/repr/Raw"
PidPath == "/ch/0/biquad/0/repr/Pid"
PidGainP == "/ch/0/biquad/0/repr/Pid/gain/p"
PidGainI == "/ch/0/biquad/0/repr/Pid/gain/i"
PidGainD == "/ch/0/biquad/0/repr/Pid/gain/d"
PidMin == "/ch/0/biquad/0/repr/Pid/min"
PidMax == "/ch/0/biquad/0/repr/Pid/max"
PidSetpoint == "/ch/0/biquad/0/repr/Pid/setpoint"
PidLimitI == "/ch/0/biquad/0/repr/Pid/limit/i"
StreamPath == "/stream"

PidFieldPaths ==
    {PidGainP, PidGainI, PidGainD, PidMin, PidMax, PidSetpoint, PidLimitI}
Paths == {RunPath, TypPath, RawPath, PidPath, StreamPath} \cup PidFieldPaths

(***************************************************************************)
(* Payload builders                                                        *)
(***************************************************************************)
\* _make_raw_payload(ba, offset): the first conversion or lookup that fails
\* raises, in the order the dictionary display evaluates them.
_make_raw_payload(ba, offset) ==
    LET fba == FloatList(ba)
        u == PyInt(offset)
        lo == Lookup(parameters, "low_voltage_limit")
        hi == Lookup(parameters, "high_voltage_limit")
    IN  IF fba.exc # "none" THEN fba
        ELSE IF u.exc # "none" THEN u
        ELSE IF lo.exc # "none" THEN lo
        ELSE IF PyInt(lo.val).exc # "none" THEN PyInt(lo.val)
        ELSE IF hi.exc # "none" THEN hi
        ELSE IF PyInt(hi.val).exc # "none" THEN PyInt(hi.val)
        ELSE Ok([ba |-> fba.val, u |-> u.val,
                 min |-> PyInt(lo.val).val, max |-> PyInt(hi.val).val])

\* _make_pid_payload(kp, ki, kd, setpoint, preload)
_make_pid_payload(kp, ki, kd, setpoint, preload) ==
    LET fs == FloatList(<<kp, ki, kd, setpoint, preload>>)
        lo == Lookup(parameters, "low_voltage_limit")
        hi == Lookup(parameters, "high_voltage_limit")
    IN  IF fs.exc # "none" THEN fs
        ELSE IF lo.exc # "none" THEN lo
        ELSE IF PyInt(lo.val).exc # "none" THEN PyInt(lo.val)
        ELSE IF hi.exc # "none" THEN hi
        ELSE IF PyInt(hi.val).exc # "none" THEN PyInt(hi.val)
        ELSE Ok([kp |-> fs.val[1], ki |-> fs.val[2], kd |-> fs.val[3],
                 setpoint |-> fs.val[4], u |-> fs.val[5],
                 min |-> PyInt(lo.val).val, max |-> PyInt(hi.val).val])

(***************************************************************************)
(* The RPC methods as programs                                             *)
(*                                                                         *)
(* A method is the sequence of its `await self._dev.set(path, value)`      *)
(* statements, followed by its send_signal.  A step is                     *)
(* [path, arg]: arg is the value expression's result, evaluated when the   *)
(* step runs; when it is an exception the statement raises before set is   *)
(* called.                                                                 *)
(***************************************************************************)
W(path, arg) == [path |-> path, arg |-> arg]

\* A variant of apply_raw_filter that uploads the feed-forward and the
\* feedback coefficients in two writes.
RawProgramSplit(ba, offset) ==
    << W(TypPath, Ok("Raw")),
       W(RawPath, _make_raw_payload(SubSeq(ba, 1, 3), offset)),
       W(RawPath, _make_raw_payload(SubSeq(ba, 4, Len(ba)), offset)),
       W(RunPath, Ok("Run")) >>

\* A variant of apply_raw_filter whose last write flips the run state the
\* device holds instead of setting it to Run.
RawProgramToggle(ba, offset) ==
    << W(TypPath, Ok("Raw")),
       W(RawPath, _make_raw_payload(ba, offset)),
       W(RunPath, Ok(IF dev[RunPath] = <<"Run">> THEN "Hold" ELSE "Run")) >>

\* A variant of apply_raw_filter that resumes the channel before it uploads
\* the payload.
RawProgramRunFirst(ba, offset) ==
    << W(TypPath, Ok("Raw")),
       W(RunPath, Ok("Run")),
       W(RawPath, _make_raw_payload(ba, offset)) >>

\* apply_raw_filter(ba, offset)
RawProgram(ba, offset) ==
    << W(TypPath, Ok("Raw")),
       W(RawPath, _make_raw_payload(ba, offset)),
       W(RunPath, Ok("Run")) >>

\* A variant of apply_pid that switches the filter type before it holds the
\* channel.
PidProgramTypFirst(kp, ki, kd, setpoint, preload) ==
    << W(TypPath, Ok("Pid")),
       W(RunPath, Ok("Hold")),
       W(PidPath, _make_pid_payload(kp, ki, kd, setpoint, preload)),
       W(RunPath, Ok("Run")) >>

\* apply_pid(kp, ki, kd, setpoint, preload)
PidProgram(kp, ki, kd, setpoint, preload) ==
    << W(RunPath, Ok("Hold")),
       W(TypPath, Ok("Pid")),
       W(PidPath, _make_pid_payload(kp, ki, kd, setpoint, preload)),
       W(RunPath, Ok("Run")) >>

\* A variant of set_pid_from_gui that resumes the channel before the setpoint
\* and the integrator preload are written.
GuiProgramRunEarly(Kp, Ki, Kd, setpoint, preload) ==
    << W(RunPath, Ok("Hold")),
       W(TypPath, Ok("Pid")),
       W(PidGainP, PyFloat(Kp)),
       W(PidGainI, PyFloat(Ki)),
       W(PidGainD, PyFloat(Kd)),
       W(PidMin, Lookup(parameters, "low_voltage_limit")),
       W(PidMax, Lookup(parameters, "high_voltage_limit")),
       W(RunPath, Ok("Run")),
       W(PidSetpoint, PyFloat(setpoint)),
       W(PidLimitI, PyFloat(IF preload.kind = "none" THEN Num(0, 1) ELSE preload)) >>

\* set_pid_from_gui(Kp, Ki, Kd, setpoint, preload); preload None becomes 0.0.
\* The asyncio.sleep(0.05) before the last write is one more point at which
\* the coroutine is suspended, as every awaited set is.
GuiProgram(Kp, Ki, Kd, setpoint, preload) ==
    << W(RunPath, Ok("Hold")),
       W(TypPath, Ok("Pid")),
       W(PidGainP, PyFloat(Kp)),
       W(PidGainI, PyFloat(Ki)),
       W(PidGainD, PyFloat(Kd)),
       W(PidMin, Lookup(parameters, "low_voltage_limit")),
       W(PidMax, Lookup(parameters, "high_voltage_limit")),
       W(PidSetpoint, PyFloat(setpoint)),
       W(PidLimitI, PyFloat(IF preload.kind = "none" THEN Num(0, 1) ELSE preload)),
       W(RunPath, Ok("Run")) >>

\* A variant of set_stream_target that resumes the channel after the write.
StreamProgramThenRun(computer_ip, port) ==
    << W(StreamPath, Ok([ip |-> computer_ip, port |-> port])),
       W(RunPath, Ok("Run")) >>

\* set_stream_target(computer_ip, port)
StreamProgram(computer_ip, port) ==
    << W(StreamPath, Ok([ip |-> computer_ip, port |-> port])) >>

\* design_and_apply_filter(filter_name, **params): get_ba raises before the
\* first statement of apply_raw_filter; otherwise apply_raw_filter runs on
\* the evaluated coefficients and params.get("offset", 0).
DesignOffset(params) ==
    IF "offset" \in DOMAIN params THEN params["offset"] ELSE Num(0, 1)

\* The floats get_ba returned, as the argument apply_raw_filter receives.
AsArgs(floats) == [i \in 1..Len(floats) |-> Num(floats[i].p, floats[i].q)]

\* When get_ba raised, the method's first statement raises and nothing is
\* written (the path of that step is never used).
DesignBody(ba, offset) ==
    IF ba.exc # "none" THEN << W(TypPath, ba) >>
    ELSE RawProgram(AsArgs(ba.val), offset)

DesignProgram(filter_name, params) ==
    DesignBody(get_ba(filter_name, params), DesignOffset(params))

Program(c) ==
    CASE c.op = "apply_raw_filter" -> RawProgram(c.ba, c.offset)
      [] c.op = "apply_pid" -> PidProgram(c.kp, c.ki, c.kd, c.setpoint, c.preload)
      [] c.op = "set_pid_from_gui" -> GuiProgram(c.kp, c.ki, c.kd, c.setpoint, c.preload)
      [] c.op = "set_stream_target" -> StreamProgram(c.ip, c.port)
      [] c.op = "design_and_apply_filter" -> DesignProgram(c.name, c.params)

\* The event each method announces when it has run to its end.
Signal(c) ==
    CASE c.op = "apply_raw_filter" -> "on_raw_filter_applied"
      [] c.op = "apply_pid" -> "on_pid_applied"
      [] c.op = "set_pid_from_gui" -> "on_pid_enabled"
      [] c.op = "set_stream_target" -> "on_stream_target_set"
      [] c.op = "design_and_apply_filter" -> "on_raw_filter_applied"

(***************************************************************************)
(* Calls a client may make                                                 *)
(***************************************************************************)
\* A list of n numeric coefficients 1/2, 3/2, 5/2, ...
NumericBa(n) == [i \in 1..n |-> Num(2 * i - 1, 2)]
\* Five coefficients, the third a non-numeric string.
BadBa == [i \in 1..5 |-> IF i = 3 THEN Str ELSE Num(2 * i - 1, 2)]
\* Five coefficients, the first NaN and the last an infinity.
NonFiniteBa ==
    [i \in 1..5 |-> IF i = 1 THEN NaN ELSE IF i = 5 THEN Inf ELSE Num(2 * i - 1, 2)]

RawCalls ==
    { [op |-> "apply_raw_filter", ba |-> NumericBa(n), offset |-> Num(0, 1)] :
          n \in {MaxBaLen - 3, 5, MaxBaLen} }
    \cup { [op |-> "apply_raw_filter", ba |-> NumericBa(5), offset |-> Num(-3, 2)],
           [op |-> "apply_raw_filter", ba |-> NumericBa(5), offset |-> Str],
           [op |-> "apply_raw_filter", ba |-> BadBa, offset |-> Num(0, 1)],
           [op |-> "apply_raw_filter", ba |-> NonFiniteBa, offset |-> Num(0, 1)] }

PidCalls ==
    { [op |-> "apply_pid", kp |-> Num(1, 2), ki |-> Num(1, 1), kd |-> kd,
       setpoint |-> Num(2, 1), preload |-> Num(0, 1)] : kd \in {Num(0, 1), Str} }

GuiCalls ==
    { [op |-> "set_pid_from_gui", kp |-> Num(1, 2), ki |-> Num(1, 1), kd |-> Num(0, 1),
       setpoint |-> Num(2, 1), preload |-> pre] : pre \in {NoneValue, Num(1, 2)} }
    \cup { [op |-> "set_pid_from_gui", kp |-> Num(1, 2), ki |-> Num(1, 1), kd |-> Str,
            setpoint |-> Num(2, 1), preload |-> NoneValue] }

StreamCalls ==
    { [op |-> "set_stream_target", ip |-> "192.168.1.134", port |-> 9293] }

P1(k1, v1) == [k \in {k1} |-> v1]
P2(k1, v1, k2, v2) == [k \in {k1, k2} |-> IF k = k1 THEN v1 ELSE v2]
P3(k1, v1, k2, v2, k3, v3) ==
    [k \in {k1, k2, k3} |-> IF k = k1 THEN v1 ELSE IF k = k2 THEN v2 ELSE v3]

DesignCalls ==
    { [op |-> "design_and_apply_filter", name |-> "P", params |-> P1("K", Num(2, 1))],
      [op |-> "design_and_apply_filter", name |-> "P",
       params |-> P2("K", Num(2, 1), "offset", Str)],
      [op |-> "design_and_apply_filter", name |-> "LP",
       params |-> P3("K", Num(1, 1), "F0", Num(1, 2), "offset", Num(3, 1))],
      [op |-> "design_and_apply_filter", name |-> "LP", params |-> P1("K", Num(1, 1))],
      [op |-> "design_and_apply_filter", name |-> "LP",
       params |-> P2("K", Str, "F0", Num(1, 2))],
      [op |-> "design_and_apply_filter", name |-> "PI",
       params |-> P3("K", Num(1, 1), "F0", Num(1, 2), "g", Num(2, 1))],
      [op |-> "design_and_apply_filter", name |-> "LP",
       params |-> P2("K", Num(1, 1), "F0", Num(-1, 1))],
      [op |-> "design_and_apply_filter", name |-> "LP",
       params |-> P2("K", Num(1, 1), "F0", Num(0, 1))],
      [op |-> "design_and_apply_filter", name |-> "P",
       params |-> P3("K", Num(2, 1), "F0", Num(1, 2), "offset", Num(3, 1))],
      [op |-> "design_and_apply_filter", name |-> "PI",
       params |-> P2("K", Num(1, 1), "F0", Num(1, 2))],
      [op |-> "design_and_apply_filter", name |-> "BP", params |-> P1("K", Num(1, 1))] }

NoCall == [op |-> "none"]

(***************************************************************************)
(* Actions                                                                 *)
(***************************************************************************)
(***************************************************************************)
(* StabilizerMirror: the tree                                              *)
(*                                                                         *)
(* A path is a list of segments, each a string or an integer; the mirror   *)
(* addresses its dictionaries by str(segment).  The nested dictionaries    *)
(* are modelled flat: tree[n] is the entry at the node with key path n     *)
(* (the keys from the root), "absent" when the dictionary above has no     *)
(* such key, "dict" for a dictionary, "leaf" for any other value.  A value *)
(* (what is written, what a read returns) is a tree of its own, rooted at  *)
(* the empty path.  Every value written is an object of its own (built by  *)
(* the caller or decoded by the client for that call): no dictionary is    *)
(* stored at two places of the tree.                                       *)
(***************************************************************************)
StrSeg(str) == [int |-> FALSE, n |-> 0, s |-> str]
IntSeg(n) == [int |-> TRUE, n |-> n, s |-> ""]

\* str(key)
PyStr(seg) == IF seg.int THEN ToString(seg.n) ELSE seg.s
\* The keys a path addresses: str(key) for each of its segments.
KeysOf(path) == [i \in 1..Len(path) |-> PyStr(path[i])]

\* The paths the mirror's callers use: the run state of channel 0 (with the
\* channel as an integer and as a string), the channel, all channels, the
\* stream target, and the empty path.  Two paths with the same keys address
\* the same node.
RunSegs == <<StrSeg("ch"), IntSeg(0), StrSeg("run")>>
RunSegsStr == <<StrSeg("ch"), StrSeg("0"), StrSeg("run")>>
ChannelSegs == <<StrSeg("ch"), IntSeg(0)>>
ChSegs == <<StrSeg("ch")>>
StreamSegs == <<StrSeg("stream")>>
MirrorPaths == {RunSegs, RunSegsStr, ChannelSegs, ChSegs, StreamSegs, <<>>}

IsPrefix(a, b) == Len(a) <= Len(b) /\ SubSeq(b, 1, Len(a)) = a
Related(a, b) == IsPrefix(a, b) \/ IsPrefix(b, a)
Prefixes(a) == {SubSeq(a, 1, n) : n \in 0..Len(a)}

\* The nodes a value has: its root and, for a dictionary, its one key.
ValueNodes == {<<>>, <<"run">>}
\* Every node the calls of the model can create.
Nodes ==
    UNION {Prefixes(KeysOf(path) \o <<"run">>) : path \in MirrorPaths}

Absent == [t |-> "absent", v |-> ""]
DictEntry == [t |-> "dict", v |-> ""]
Leaf(v) == [t |-> "leaf", v |-> v]

\* A string value, and the dictionary {"run": v}.
LeafValue(v) == [n \in ValueNodes |-> IF n = <<>> THEN Leaf(v) ELSE Absent]
DictValue(v) == [n \in ValueNodes |-> IF n = <<>> THEN DictEntry ELSE Leaf(v)]
MirrorValues == {LeafValue("Hold"), LeafValue("Run"), DictValue("Run")}

\* self._tree = {}
EmptyTree == [n \in Nodes |-> IF n = <<>> THEN DictEntry ELSE Absent]
\* No value: what a call that raised returns.
NoValue == [n \in Nodes |-> Absent]

EntryAt(tr, node) == IF node \in Nodes THEN tr[node] ELSE Absent

\* The value found at node: the entry and everything below it.
ValueAt(tr, node) == [n \in Nodes |-> EntryAt(tr, node \o n)]
\* A written value as a read returns it.
AsRead(value) == [n \in Nodes |-> IF n \in ValueNodes THEN value[n] ELSE Absent]

\* A variant of the final assignment that keeps a value the node already has
\* (node.setdefault(key, value) in place of node[key] = value).
AssignIfAbsent(tr, node, value) ==
    IF tr[node].t # "absent" THEN tr
    ELSE [n \in Nodes |->
            IF IsPrefix(node, n) /\ SubSeq(n, Len(node) + 1, Len(n)) \in ValueNodes
            THEN value[SubSeq(n, Len(node) + 1, Len(n))]
            ELSE tr[n]]

\* node[key] = value, for the node with key path `node`: the entry is
\* replaced, with everything that was below it.
Assign(tr, node, value) ==
    [n \in Nodes |->
        IF ~IsPrefix(node, n) THEN tr[n]
        ELSE IF SubSeq(n, Len(node) + 1, Len(n)) \in ValueNodes
             THEN value[SubSeq(n, Len(node) + 1, Len(n))]
             ELSE Absent]

\* A variant of the loop's step that puts an empty dictionary in place of
\* whatever is not a dictionary (node[key] = {} unless node[key] is a dict).
SetDefaultReplacing(tr, child) ==
    IF tr[child].t = "dict" THEN tr
    ELSE [n \in Nodes |-> IF n = child THEN DictEntry
                          ELSE IF IsPrefix(child, n) THEN Absent ELSE tr[n]]

\* node.setdefault(key, {}), for the child with key path `child`.
SetDefault(tr, child) ==
    IF tr[child].t = "absent" THEN [tr EXCEPT ![child] = DictEntry] ELSE tr

\* for key in path[:-1]: node = node.setdefault(str(key), {}), from `node`
\* with `keys` still to go: AttributeError when node is not a dictionary.
RECURSIVE Walk(_, _, _)
Walk(tr, node, keys) ==
    IF keys = <<>> THEN [exc |-> "none", tree |-> tr, node |-> node]
    ELSE IF tr[node].t # "dict" THEN [exc |-> "AttributeError", tree |-> tr, node |-> node]
    ELSE Walk(SetDefault(tr, node \o <<Head(keys)>>), node \o <<Head(keys)>>, Tail(keys))

\* node[str(path[-1])] = value after the walk w: TypeError when the node
\* reached is not a dictionary.
Store(w, key, value) ==
    IF w.exc # "none" THEN [exc |-> w.exc, tree |-> w.tree]
    ELSE IF w.tree[w.node].t # "dict" THEN [exc |-> "TypeError", tree |-> w.tree]
    ELSE [exc |-> "none", tree |-> Assign(w.tree, w.node \o <<key>>, value)]

\* update_subtree(path, value): IndexError for the empty path (path[-1]).
UpdateSubtree(tr, path, value) ==
    IF path = <<>> THEN [exc |-> "IndexError", tree |-> tr]
    ELSE Store(Walk(tr, <<>>, KeysOf(SubSeq(path, 1, Len(path) - 1))),
               PyStr(path[Len(path)]), value)

\* for key in path: node = node[str(key)]: TypeError when node is a string,
\* KeyError when the dictionary has no such key.
RECURSIVE Descend(_, _, _)
Descend(tr, node, keys) ==
    IF keys = <<>> THEN [exc |-> "none", val |-> ValueAt(tr, node)]
    ELSE IF tr[node].t # "dict" THEN [exc |-> "TypeError", val |-> NoValue]
    ELSE IF EntryAt(tr, node \o <<Head(keys)>>).t = "absent"
         THEN [exc |-> "KeyError", val |-> NoValue]
    ELSE Descend(tr, node \o <<Head(keys)>>, Tail(keys))

\* get(path)
Get(tr, path) == Descend(tr, <<>>, KeysOf(path))

\* The leaf paths the device reports changes for, and its values.
DevicePaths == {RunSegs, StreamSegs}
DeviceValues == {"Hold", "Run"}

IdleUpdate == [pc |-> 0, path |-> <<>>, val |-> "", node |-> <<>>, made |-> {}]
IdleGet == [pc |-> 0, path |-> <<>>, node |-> <<>>]
NoObservation == [op |-> "none", exc |-> "none", torn |-> FALSE]
NoCallYet == [op |-> "none", path |-> <<>>, exc |-> "none", val |-> NoValue]

\* __init__ of the mirror and of the client: an empty tree, no callback.
MirrorInit ==
    /\ tree = EmptyTree
    /\ writes = <<>>
    /\ out = NoCallYet
    /\ callback = FALSE
    /\ subscribed = FALSE
    /\ device = [path \in DevicePaths |-> ""]
    /\ queue = <<>>
    /\ changed = {}
    /\ nchanges = 0
    /\ cb = IdleUpdate
    /\ rd = IdleGet
    /\ obs = NoObservation

\* Stabilizer.__init__: no MQTT client yet; nothing published.
NoLimitCall == [called |-> FALSE, low |-> 0, high |-> 0, exc |-> "none"]
LimitInit ==
    /\ mqtt_client = FALSE
    /\ published = <<>>
    /\ limits = NoLimitCall

\* __init__: not connected; nothing announced or saved yet.
NoStatus == [asked |-> FALSE, val |-> FALSE, at |-> "constructed"]
LifeInit ==
    /\ connected = FALSE
    /\ notified = <<>>
    /\ tries = 0
    /\ saves = 0
    /\ sessions = 0
    /\ cause = "none"
    /\ status = NoStatus

\* The names get_ba_sym is called with: the prototypes and an unknown one.
CallNames == names \cup {"BP"}

NoEvaluation == [name |-> "", params |-> <<>>, exc |-> "none", val |-> <<>>]
NoResult == [name |-> "", exc |-> "none", hit |-> FALSE]

\* At import nothing is cached.
CacheInit ==
    /\ cache = [n \in CallNames |-> <<>>]
    /\ derived = [n \in CallNames |-> 0]
    /\ got = [t \in Tasks |-> NoResult]
    /\ ev = NoEvaluation

Init ==
    /\ phase = "constructed"
    /\ parameters = <<>>
    /\ call = [t \in Tasks |-> NoCall]
    /\ pc = [t \in Tasks |-> 0]
    /\ sent = [t \in Tasks |-> <<>>]
    /\ signals = [t \in Tasks |-> <<>>]
    /\ result = [t \in Tasks |-> [kind |-> "none", exc |-> "none"]]
    /\ dev = [p \in Paths |-> <<>>]
    /\ LifeInit
    /\ CacheInit
    /\ MirrorInit
    /\ LimitInit

\* __asynccontextmanager__ up to its yield: the configuration is loaded, the
\* client connected and the connection announced; from then on the RPC
\* methods can be called.
Enter ==
    /\ phase = "constructed"
    /\ \E loaded \in LoadResults : parameters' = LoadConfig(loaded)
    /\ phase' = "connected"
    /\ connected' = TRUE
    /\ notified' = Append(notified, TRUE)
    /\ tries' = tries + 1
    /\ sessions' = sessions + 1
    /\ UNCHANGED <<rpcVars, saves, cause, status, cacheVars, mirrorVars, limitVars>>

\* A client calls an RPC method: a new coroutine, at its first statement.
Invoke(t, c) ==
    /\ phase = "connected"
    /\ pc[t] = 0
    /\ call' = [call EXCEPT ![t] = c]
    /\ pc' = [pc EXCEPT ![t] = 1]
    /\ result' = [result EXCEPT ![t] = [kind |-> "running", exc |-> "none"]]
    /\ UNCHANGED <<phase, parameters, sent, signals, dev, lifeVars, cacheVars, mirrorVars, limitVars>>

\* An exception leaves the coroutine: nothing catches it, so the remaining
\* statements are skipped and the caller gets the exception as raised.
Raise(t, exc) ==
    /\ result' = [result EXCEPT ![t] = [kind |-> "raised", exc |-> exc]]
    /\ UNCHANGED pc

\* What the device holds after it acknowledged value v for path.
Deliver(d, path, v) == [d EXCEPT ![path] = <<v>>]

\* A variant of the remote write that announces the method's completion
\* also when the write was refused (send_signal in a finally clause).
DevSetAnnouncing(t, path, v) ==
    \E ok \in BOOLEAN :
        /\ sent' = [sent EXCEPT ![t] =
                       Append(@, [path |-> path, val |-> v, ok |-> ok,
                                  held |-> dev[RunPath] = <<"Hold">>])]
        /\ IF ok
           THEN /\ dev' = Deliver(dev, path, v)
                /\ pc' = [pc EXCEPT ![t] = @ + 1]
                /\ UNCHANGED <<result, signals>>
           ELSE /\ Raise(t, "MiniconfError")
                /\ signals' = [signals EXCEPT ![t] = Append(@, Signal(call[t]))]
                /\ UNCHANGED dev

\* await self._dev.set(path, v) in task t: the write is issued; the device
\* applies and acknowledges it, or it is refused and the client raises.
\* `held` records whether the last run command the device acknowledged
\* before this write was Hold.
DevSet(t, path, v) ==
    \E ok \in BOOLEAN :
        /\ sent' = [sent EXCEPT ![t] =
                       Append(@, [path |-> path, val |-> v, ok |-> ok,
                                  held |-> dev[RunPath] = <<"Hold">>])]
        /\ IF ok
           THEN /\ dev' = Deliver(dev, path, v)
                /\ pc' = [pc EXCEPT ![t] = @ + 1]
                /\ UNCHANGED result
           ELSE /\ Raise(t, "MiniconfError")
                /\ UNCHANGED dev
        /\ UNCHANGED signals

\* await self.send_signal("others", event, ...), the method's last statement.
SendSignal(t, event) ==
    /\ signals' = [signals EXCEPT ![t] = Append(@, event)]
    /\ result' = [result EXCEPT ![t] = [kind |-> "returned", exc |-> "none"]]
    /\ UNCHANGED <<pc, sent, dev>>

\* The next statement of task t's method.
Step(t) ==
    LET prog == Program(call[t])
        i == pc[t]
    IN  /\ result[t].kind = "running"
        /\ IF i > Len(prog) THEN SendSignal(t, Signal(call[t]))
           ELSE IF prog[i].arg.exc # "none"
                THEN Raise(t, prog[i].arg.exc) /\ UNCHANGED <<sent, signals, dev>>
                ELSE DevSet(t, prog[i].path, prog[i].arg.val)
        /\ UNCHANGED <<phase, parameters, call, lifeVars, cacheVars, mirrorVars, limitVars>>

apply_raw_filter(t) == call[t].op = "apply_raw_filter" /\ Step(t)
apply_pid(t) == call[t].op = "apply_pid" /\ Step(t)
set_pid_from_gui(t) == call[t].op = "set_pid_from_gui" /\ Step(t)
set_stream_target(t) == call[t].op = "set_stream_target" /\ Step(t)
design_and_apply_filter(t) == call[t].op = "design_and_apply_filter" /\ Step(t)

Calls == RawCalls \cup PidCalls \cup GuiCalls \cup StreamCalls \cup DesignCalls

Next ==
    \/ Enter
    \/ \E t \in Tasks :
        \/ \E c \in Calls : Invoke(t, c)
        \/ apply_raw_filter(t)
        \/ apply_pid(t)
        \/ set_pid_from_gui(t)
        \/ set_stream_target(t)
        \/ design_and_apply_filter(t)

Spec == Init /\ [][Next]_vars

(***************************************************************************)
(* The connection lifecycle, statement by statement                        *)
(*                                                                         *)
(* phase is the await the context manager is suspended at: "connecting"    *)
(* (the client's __aenter__), "announcing" (send_signal(.., True)),        *)
(* "connected" (the yield: the body of the async with), "closing" (the     *)
(* client's __aexit__), "notifying" (send_signal(.., False) in the finally *)
(* block), "saving" (config_handler.save), and "left" once the context     *)
(* manager has returned or raised.  The statements between two awaits run  *)
(* without interruption.  A server may be entered again after it was left. *)
(***************************************************************************)
\* How often one server object is entered.
MaxSessions == 2

\* The finally block up to its first await: the flag is cleared and the
\* disconnection is passed to send_signal.
BeginFinally ==
    /\ connected' = FALSE
    /\ notified' = Append(notified, FALSE)
    /\ phase' = "notifying"

\* async with server: await self._load_config(), which is outside the try
\* block: when load() raises, the exception leaves the context manager at once.
Load ==
    /\ phase \in {"constructed", "left"}
    /\ sessions < MaxSessions
    /\ sessions' = sessions + 1
    /\ \/ /\ \E loaded \in LoadResults : parameters' = LoadConfig(loaded)
          /\ phase' = "connecting"
          /\ tries' = tries + 1
          /\ cause' = "none"
       \/ /\ phase' = "left"
          /\ cause' = "load"
          /\ UNCHANGED <<parameters, tries>>
    /\ UNCHANGED <<rpcVars, cacheVars, mirrorVars, limitVars, connected, notified, saves, status>>

\* async with miniconf.Client(...): connected, or the connection fails and
\* the finally block runs.
Connect ==
    /\ phase = "connecting"
    /\ \/ /\ connected' = TRUE
          /\ notified' = Append(notified, TRUE)
          /\ phase' = "announcing"
          /\ UNCHANGED cause
       \/ /\ BeginFinally
          /\ cause' = "connect"
    /\ UNCHANGED <<parameters, rpcVars, cacheVars, mirrorVars, limitVars, tries, saves, sessions, status>>

\* await self.send_signal("all", "on_connection_state", True) returns and the
\* server is yielded, or it raises and the client is closed.
Announce ==
    /\ phase = "announcing"
    /\ \/ phase' = "connected" /\ UNCHANGED cause
       \/ phase' = "closing" /\ cause' = "announce"
    /\ UNCHANGED <<parameters, rpcVars, cacheVars, mirrorVars, limitVars, connected, notified, tries, saves,
                   sessions, status>>

\* The body of the async with ends: normally, with an exception, or because
\* its task was cancelled.
Leave ==
    /\ phase = "connected"
    /\ phase' = "closing"
    /\ \E how \in {"normal", "error", "cancelled"} : cause' = how
    /\ UNCHANGED <<parameters, rpcVars, cacheVars, mirrorVars, limitVars, connected, notified, tries, saves,
                   sessions, status>>

\* The client's __aexit__ has run (whether or not it raised); the finally
\* block begins.
Close ==
    /\ phase = "closing"
    /\ BeginFinally
    /\ UNCHANGED <<parameters, rpcVars, cacheVars, mirrorVars, limitVars, tries, saves, sessions, cause, status>>

\* await self.send_signal("all", "on_connection_state", False): it returns,
\* or it raises (the sink fails, or the await is interrupted by the
\* cancellation of the task: the await is not shielded) and the exception
\* leaves the finally block before its last statement.
Notify ==
    /\ phase = "notifying"
    /\ \/ phase' = "saving"
       \/ phase' = "left"
    /\ UNCHANGED <<parameters, rpcVars, cacheVars, mirrorVars, limitVars, lifeVars>>

\* with CancelScope(shield=True): await self.config_handler.save(self.parameters)
Save ==
    /\ phase = "saving"
    /\ saves' = saves + 1
    /\ phase' = "left"
    /\ UNCHANGED <<parameters, rpcVars, cacheVars, mirrorVars, limitVars, connected, notified, tries, sessions, cause, status>>

\* get_connection_status(), called at any time.
get_connection_status ==
    /\ status' = [asked |-> TRUE, val |-> connected, at |-> phase]
    /\ UNCHANGED <<phase, parameters, rpcVars, cacheVars, mirrorVars, limitVars, connected, notified, tries,
                   saves, sessions, cause>>

LifeNext ==
    \/ Load
    \/ Connect
    \/ Announce
    \/ Leave
    \/ Close
    \/ Notify
    \/ Save
    \/ get_connection_status

LifeSpec == Init /\ [][LifeNext]_vars

(***************************************************************************)
(* FilterLibrary.get_ba_sym behind functools.lru_cache                     *)
(*                                                                         *)
(* get_ba_sym and get_ba contain no await: a call runs from its cache      *)
(* lookup to its return without another coroutine of the event loop in     *)
(* between, so a call is one step.  A call that raises caches nothing.     *)
(* The cache holds up to 128 entries and the library has seven names, so   *)
(* no entry is ever evicted; nothing in the program calls cache_clear.     *)
(***************************************************************************)
\* How often the body of get_ba_sym may run for one name.
MaxDerivations == 2

\* A decorator that passes every call through to the function.
CacheStoreNothing(c, name, r) == c

\* lru_cache: the result of a call that returned is stored under its argument.
CacheStore(c, name, r) == [c EXCEPT ![name] = <<r>>]

\* The cached get_ba_sym(name): the stored result, or the result of the body.
CachedSym(name) ==
    IF cache[name] # <<>> THEN Ok(cache[name][1]) ELSE get_ba_sym(name)

\* What a call of the cached get_ba_sym(name) does to the cache.
CallSym(name) ==
    /\ cache[name] = <<>> => derived[name] < MaxDerivations
    /\ cache' = IF cache[name] = <<>> /\ get_ba_sym(name).exc = "none"
                THEN CacheStore(cache, name, get_ba_sym(name).val)
                ELSE cache
    /\ derived' = IF cache[name] = <<>> /\ name \in names
                  THEN [derived EXCEPT ![name] = @ + 1]
                  ELSE derived

\* derive: task t calls FilterLibrary.get_ba_sym(name).
Derive(t, name) ==
    /\ CallSym(name)
    /\ got' = [got EXCEPT ![t] =
                  [name |-> name, exc |-> CachedSym(name).exc, hit |-> cache[name] # <<>>]]
    /\ UNCHANGED <<phase, parameters, rpcVars, lifeVars, mirrorVars, limitVars, ev>>

\* evaluate: task t calls FilterLibrary.get_ba(name, **params).
Evaluate(t, name, params) ==
    /\ CallSym(name)
    /\ got' = [got EXCEPT ![t] =
                  [name |-> name, exc |-> EvalBa(CachedSym(name), WithTs(params)).exc,
                   hit |-> cache[name] # <<>>]]
    /\ UNCHANGED <<phase, parameters, rpcVars, lifeVars, mirrorVars, limitVars, ev>>

\* The arguments evaluate is called with: those of the design calls.
EvalInputs == {[name |-> c.name, params |-> c.params] : c \in DesignCalls}

CacheNext ==
    \E t \in Tasks :
        \/ \E n \in CallNames : Derive(t, n)
        \/ \E e \in EvalInputs : Evaluate(t, e.name, e.params)

CacheSpec == Init /\ [][CacheNext]_vars

(***************************************************************************)
(* FilterLibrary.get_ba as a function of its arguments                     *)
(*                                                                         *)
(* One caller evaluates prototypes at gains, corner frequencies and        *)
(* sampling intervals drawn from small sets; a parameter may be left out.  *)
(***************************************************************************)
\* The prototypes evaluated, and a name the library does not have.
EvalNames == {"P", "LP", "PI", "BP"}
\* Values for K, F0, g and Ts; NoneValue stands for "not supplied".
GainValues == {Num(2, 1), Num(-3, 2), Num(0, 1)}
CornerValues == {NoneValue, Num(1, 2)}
RatioValues == {NoneValue, Num(2, 1)}
IntervalValues == {NoneValue, Num(1, 1000)}

\* **params with K and the supplied ones of F0, g, Ts.
Supplied(kv, f, gv, ts) ==
    [k \in {"K"} \cup (IF f.kind = "none" THEN {} ELSE {"F0"})
               \cup (IF gv.kind = "none" THEN {} ELSE {"g"})
               \cup (IF ts.kind = "none" THEN {} ELSE {"Ts"}) |->
        IF k = "K" THEN kv ELSE IF k = "F0" THEN f ELSE IF k = "g" THEN gv ELSE ts]

\* FilterLibrary.get_ba(name, **params), get_ba_sym's cache included.
EvaluateAt(name, params) ==
    /\ CallSym(name)
    /\ ev' = [name |-> name, params |-> params,
              exc |-> EvalBa(CachedSym(name), WithTs(params)).exc,
              val |-> IF EvalBa(CachedSym(name), WithTs(params)).exc = "none"
                      THEN EvalBa(CachedSym(name), WithTs(params)).val ELSE <<>>]
    /\ UNCHANGED <<phase, parameters, rpcVars, lifeVars, mirrorVars, limitVars, got>>

EvalNext ==
    \E name \in EvalNames, kv \in GainValues, f \in CornerValues,
       gv \in RatioValues, ts \in IntervalValues :
        EvaluateAt(name, Supplied(kv, f, gv, ts))

EvalSpec == Init /\ [][EvalNext]_vars

(***************************************************************************)
(* StabilizerMirror used by one caller: each call runs to its end          *)
(***************************************************************************)
\* How many update_subtree calls return.
MaxWrites == 3

notMirror == <<phase, parameters, rpcVars, lifeVars, cacheVars, limitVars>>

\* update_subtree(path, value): writeLocal and applyRemoteUpdate alike.
update_subtree(path, value) ==
    /\ Len(writes) < MaxWrites
    /\ tree' = UpdateSubtree(tree, path, value).tree
    /\ writes' = IF UpdateSubtree(tree, path, value).exc = "none"
                 THEN Append(writes, [path |-> KeysOf(path), val |-> value])
                 ELSE writes
    /\ out' = [op |-> "update", path |-> KeysOf(path),
               exc |-> UpdateSubtree(tree, path, value).exc, val |-> NoValue]
    /\ UNCHANGED <<notMirror, feedVars>>

\* get(path)
get(path) ==
    /\ out' = [op |-> "get", path |-> KeysOf(path),
               exc |-> Get(tree, path).exc, val |-> Get(tree, path).val]
    /\ UNCHANGED <<notMirror, tree, writes, feedVars>>

\* get_full_tree()
get_full_tree ==
    /\ out' = [op |-> "get_full_tree", path |-> <<>>, exc |-> "none", val |-> tree]
    /\ UNCHANGED <<notMirror, tree, writes, feedVars>>

MirrorNext ==
    \/ \E path \in MirrorPaths, value \in MirrorValues : update_subtree(path, value)
    \/ \E path \in MirrorPaths : get(path)
    \/ get_full_tree

MirrorSpec == Init /\ [][MirrorNext]_vars

(***************************************************************************)
(* The update feed: the client's callback thread writes the mirror while   *)
(* another thread reads it                                                 *)
(*                                                                         *)
(* connect() hands _handle_update to the blocking Miniconf client, which   *)
(* calls it from its own thread for every update the device reports.       *)
(* Neither class holds a lock, so the steps of an update_subtree running   *)
(* in that thread (one dictionary operation each) interleave with the      *)
(* steps of a get and with get_full_tree in the thread that reads.  The    *)
(* device reports leaves only, so no dictionary of the tree is ever        *)
(* replaced and a node is known by its key path.                           *)
(***************************************************************************)
\* How often the device changes a value.
MaxChanges == 3

notFeed == <<phase, parameters, rpcVars, lifeVars, cacheVars, limitVars, writes, out>>

\* connect(): from now on the client calls _handle_update.
connect ==
    /\ ~subscribed
    /\ subscribed' = TRUE
    /\ UNCHANGED <<notFeed, tree, callback, device, queue, changed, nchanges, cb, rd, obs>>

\* register_update_callback(mirror.update_subtree)
register_update_callback ==
    /\ ~callback
    /\ callback' = TRUE
    /\ UNCHANGED <<notFeed, tree, subscribed, device, queue, changed, nchanges, cb, rd, obs>>

\* The device changes the value at a leaf; a subscribed client is told.
DeviceChange(path, v) ==
    /\ nchanges < MaxChanges
    /\ device[path] # v
    /\ device' = [device EXCEPT ![path] = v]
    /\ nchanges' = nchanges + 1
    /\ IF subscribed
       THEN queue' = Append(queue, [path |-> path, val |-> v]) /\ changed' = changed \cup {path}
       ELSE UNCHANGED <<queue, changed>>
    /\ UNCHANGED <<notFeed, tree, callback, subscribed, cb, rd, obs>>

\* _handle_update(path, value) for the next reported update: the callback is
\* called when one is set, and the update is dropped otherwise.
_handle_update ==
    /\ queue # <<>>
    /\ cb.pc = 0
    /\ queue' = Tail(queue)
    /\ cb' = IF callback
             THEN [pc |-> 1, path |-> KeysOf(Head(queue).path), val |-> Head(queue).val,
                   node |-> <<>>, made |-> {}]
             ELSE cb
    /\ UNCHANGED <<notFeed, tree, callback, subscribed, device, changed, nchanges, rd, obs>>

\* The next dictionary operation of the update_subtree in the callback
\* thread: a setdefault of the loop, or the final assignment.
UpdateStep ==
    /\ cb.pc >= 1
    /\ IF tree[cb.node].t # "dict"
       THEN cb' = IdleUpdate /\ UNCHANGED tree
       ELSE IF cb.pc < Len(cb.path)
       THEN /\ tree' = SetDefault(tree, cb.node \o <<cb.path[cb.pc]>>)
            /\ cb' = [cb EXCEPT !.pc = @ + 1,
                                !.node = @ \o <<cb.path[cb.pc]>>,
                                !.made = IF tree[cb.node \o <<cb.path[cb.pc]>>].t = "absent"
                                         THEN @ \cup {cb.node \o <<cb.path[cb.pc]>>} ELSE @]
       ELSE /\ tree' = Assign(tree, cb.node \o <<cb.path[cb.pc]>>, LeafValue(cb.val))
            /\ cb' = IdleUpdate
    /\ UNCHANGED <<notFeed, callback, subscribed, device, queue, changed, nchanges, rd, obs>>

\* The dictionaries an unfinished update_subtree has created: parents whose
\* child is not attached yet.
Unattached == IF cb.pc >= 1 THEN cb.made ELSE {}

\* get_full_tree() in the reader's thread: the caller looks at the tree as
\* it is at that moment.
Snapshot ==
    /\ rd.pc = 0
    /\ obs' = [op |-> "get_full_tree", exc |-> "none", torn |-> Unattached # {}]
    /\ UNCHANGED <<notFeed, tree, callback, subscribed, device, queue, changed, nchanges, cb, rd>>

\* The reader calls get(path).
StartGet(path) ==
    /\ rd.pc = 0
    /\ rd' = [pc |-> 1, path |-> KeysOf(path), node |-> <<>>]
    /\ UNCHANGED <<notFeed, tree, callback, subscribed, device, queue, changed, nchanges, cb, obs>>

\* The next node = node[str(key)] of the get in the reader's thread, or its
\* return: what it returns is torn when it holds an unattached dictionary.
GetStep ==
    /\ rd.pc >= 1
    /\ IF rd.pc > Len(rd.path)
       THEN /\ obs' = [op |-> "get", exc |-> "none",
                       torn |-> \E n \in Unattached : IsPrefix(rd.node, n)]
            /\ rd' = IdleGet
       ELSE IF tree[rd.node].t # "dict"
       THEN obs' = [op |-> "get", exc |-> "TypeError", torn |-> FALSE] /\ rd' = IdleGet
       ELSE IF EntryAt(tree, rd.node \o <<rd.path[rd.pc]>>).t = "absent"
       THEN obs' = [op |-> "get", exc |-> "KeyError", torn |-> FALSE] /\ rd' = IdleGet
       ELSE /\ rd' = [rd EXCEPT !.pc = @ + 1, !.node = @ \o <<rd.path[rd.pc]>>]
            /\ UNCHANGED obs
    /\ UNCHANGED <<notFeed, tree, callback, subscribed, device, queue, changed, nchanges, cb>>

FeedNext ==
    \/ connect
    \/ register_update_callback
    \/ \E path \in DevicePaths, v \in DeviceValues : DeviceChange(path, v)
    \/ _handle_update
    \/ UpdateStep
    \/ Snapshot
    \/ \E path \in {RunSegs, ChSegs} : StartGet(path)
    \/ GetStep

FeedSpec == Init /\ [][FeedNext]_vars

(***************************************************************************)
(* Stabilizer.set_voltage_limits (src/_sinara_stabilizer/server.py)        *)
(*                                                                         *)
(* The MQTT client is created by the blocking MQTT thread the context      *)
(* manager starts; set_voltage_limits is an RPC method of its own and      *)
(* suspends only at its one await, the publish in a worker thread.         *)
(***************************************************************************)
\* The largest DAC code the method compares with.
MaxCode == 32767
\* How many payloads are published.
MaxPublishes == 2

\* The limits a caller passes: the ends of the range, the codes next to
\* them, and zero.
LimitValues == {-MaxCode - 1, -MaxCode, 0, MaxCode, MaxCode + 1}

\* _blocking_mqtt: client = mqtt.Client(); self._mqtt_client = client
_blocking_mqtt ==
    /\ ~mqtt_client
    /\ mqtt_client' = TRUE
    /\ UNCHANGED <<phase, parameters, rpcVars, lifeVars, cacheVars, mirrorVars,
                   published, limits>>

\* set_voltage_limits(low, high): ValueError from the range check,
\* AttributeError when self._mqtt_client is still None, else one publish.
set_voltage_limits(low, high) ==
    /\ Len(published) < MaxPublishes
    /\ IF low < -MaxCode \/ high > MaxCode
       THEN /\ limits' = [called |-> TRUE, low |-> low, high |-> high, exc |-> "ValueError"]
            /\ UNCHANGED published
       ELSE IF ~mqtt_client
       THEN /\ limits' = [called |-> TRUE, low |-> low, high |-> high,
                          exc |-> "AttributeError"]
            /\ UNCHANGED published
       ELSE /\ limits' = [called |-> TRUE, low |-> low, high |-> high, exc |-> "none"]
            /\ published' = Append(published, [low |-> low, high |-> high])
    /\ UNCHANGED <<phase, parameters, rpcVars, lifeVars, cacheVars, mirrorVars, mqtt_client>>

LimitNext ==
    \/ _blocking_mqtt
    \/ \E low \in LimitValues, high \in LimitValues : set_voltage_limits(low, high)

LimitSpec == Init /\ [][LimitNext]_vars

(***************************************************************************)
(* Vocabulary of the properties                                            *)
(***************************************************************************)
IsPidCall(t) == call[t].op \in {"apply_pid", "set_pid_from_gui"}
IsRawCall(t) == call[t].op \in {"apply_raw_filter", "design_and_apply_filter"}
Returned(t) == result[t].kind = "returned"
Raised(t) == result[t].kind = "raised"

\* The paths that carry a PID gain, limit, setpoint or preload.
PidConfigPaths == PidFieldPaths \cup {PidPath}
\* The paths a call of apply_pid / set_pid_from_gui has to write for its
\* configuration to be complete.
PidConfigOf(t) == IF call[t].op = "apply_pid" THEN {PidPath} ELSE PidFieldPaths

IsHold(w) == w.path = RunPath /\ w.val = "Hold"
IsRun(w) == w.path = RunPath /\ w.val = "Run"

\* Task t's last write was refused: the write that ended its transaction.
WriteFailed(t) == Len(sent[t]) >= 1 /\ ~sent[t][Len(sent[t])].ok

\* Task t is between the first and the last remote write of its method.
InFlight(t) ==
    /\ result[t].kind = "running"
    /\ Len(sent[t]) >= 1
    /\ pc[t] <= Len(Program(call[t]))

\* C1: every apply_pid / set_pid_from_gui transaction issues its writes in the
\* order run=Hold, typ=Pid, the gain/limit/setpoint/preload writes, run=Run:
\* the first write is Hold, the second typ=Pid, no PID field write comes before
\* them, every write but the last was acknowledged, Run is issued only when
\* every PID field of the method has been written, nothing follows Run, and
\* a call that returns has ended with an acknowledged Run.
C1_PidWriteOrder ==
    \A t \in Tasks : IsPidCall(t) =>
        LET s == sent[t] IN
        /\ Len(s) >= 1 => IsHold(s[1])
        /\ Len(s) >= 2 => s[2].path = TypPath /\ s[2].val = "Pid"
        /\ \A i \in 1..Len(s) :
            /\ s[i].path \in PidConfigPaths => i >= 3
            /\ i < Len(s) => s[i].ok
            /\ IsRun(s[i]) =>
                /\ i = Len(s)
                /\ \A f \in PidConfigOf(t) : \E j \in 3..(i - 1) : s[j].path = f
        /\ Returned(t) => Len(s) >= 1 /\ IsRun(s[Len(s)]) /\ s[Len(s)].ok

\* C1 witness: both entry points have run to their end.
C1_Witness ==
    \E t, u \in Tasks :
        /\ call[t].op = "set_pid_from_gui" /\ Returned(t) /\ Len(sent[t]) = 10
        /\ call[u].op = "apply_pid" /\ Returned(u) /\ Len(sent[u]) = 4

\* C2: when a gain/limit/setpoint/preload write of an applyPID transaction is
\* refused, the last run command the device acknowledged is Hold, the
\* transaction has issued no Run and has sent no notification.
C2_FailedGainLeavesHeld ==
    \A t \in Tasks :
        (IsPidCall(t) /\ WriteFailed(t) /\ sent[t][Len(sent[t])].path \in PidConfigPaths) =>
            /\ sent[t][Len(sent[t])].held
            /\ \A i \in 1..Len(sent[t]) : ~IsRun(sent[t][i])
            /\ signals[t] = <<>>

\* C3: at most one transaction is between its first and its last remote write.
C3_MutualExclusion == Cardinality({t \in Tasks : InFlight(t)}) <= 1

\* C4: a PID gain, limit, setpoint or preload write reaches the device only
\* while the last run command the device acknowledged is Hold.
C4_GainsOnlyWhileHeld ==
    \A t \in Tasks : \A i \in 1..Len(sent[t]) :
        (sent[t][i].path \in PidConfigPaths /\ sent[t][i].ok) => sent[t][i].held

\* The coefficients and offset the body of apply_raw_filter receives in task t.
RawArgs(t) ==
    IF call[t].op = "apply_raw_filter" THEN [ba |-> call[t].ba, offset |-> call[t].offset]
    ELSE [ba |-> AsArgs(get_ba(call[t].name, call[t].params).val),
          offset |-> DesignOffset(call[t].params)]

\* C5: apply_raw_filter writes only the type, the Raw representation and the
\* run command; it writes the Raw representation at most once (exactly once
\* when it returns), and that one write carries every coefficient of the call, the offset and both limits;
\* what the device holds at the Raw path is one such payload, whole.
C5_RawPayloadOneWrite ==
    /\ \A t \in Tasks : IsRawCall(t) =>
        LET s == sent[t]
            raws == {i \in 1..Len(s) : s[i].path = RawPath}
        IN  /\ \A i \in 1..Len(s) : s[i].path \in {TypPath, RawPath, RunPath}
            /\ Cardinality(raws) <= 1
            /\ Returned(t) => Cardinality(raws) = 1
            /\ \A i \in raws :
                /\ DOMAIN s[i].val = {"ba", "u", "min", "max"}
                /\ s[i].val.ba = FloatList(RawArgs(t).ba).val
                /\ s[i].val.u = PyInt(RawArgs(t).offset).val
                /\ s[i].val.min = PyInt(parameters["low_voltage_limit"]).val
                /\ s[i].val.max = PyInt(parameters["high_voltage_limit"]).val
    /\ dev[RawPath] # <<>> =>
        \E t \in Tasks : \E i \in 1..Len(sent[t]) :
            sent[t][i].path = RawPath /\ sent[t][i].ok /\ dev[RawPath] = <<sent[t][i].val>>

\* C5 witness: a raw filter call has run to its end and the device holds its
\* five coefficients, offset and limits.
C5_Witness ==
    \E t \in Tasks :
        /\ call[t].op = "apply_raw_filter" /\ Returned(t)
        /\ dev[RawPath] = <<sent[t][2].val>>
        /\ Len(sent[t][2].val.ba) = 5

C7_TransactionFailed ==
    \A t \in Tasks :
        WriteFailed(t) => (Raised(t) /\ result[t].exc = "TransactionFailed")

\* C8: when an applyPID call ends, either it returns normally and the last
\* run command the device acknowledged is Run, or the channel is held and the
\* call raises.
C8_NeverLeftHeld ==
    [][\A t \in Tasks :
          (IsPidCall(t) /\ result[t].kind = "running" /\ result'[t].kind # "running") =>
              /\ Returned(t)' => dev'[RunPath] = <<"Run">>
              /\ dev'[RunPath] = <<"Hold">> => Raised(t)']_vars

\* The exceptions raised by validation: a lookup or a conversion that fails.
ValidationErrors == {"KeyError", "ValueError", "TypeError", "ZeroDivision"}

\* C9: a raw filter call that fails validation has issued no remote write.
C9_ValidateBeforeWrite ==
    \A t \in Tasks :
        (IsRawCall(t) /\ Raised(t) /\ result[t].exc \in ValidationErrors) => sent[t] = <<>>

\* C10: every Raw payload written carries exactly five coefficients.
C10_FiveCoefficients ==
    \A t \in Tasks : \A i \in 1..Len(sent[t]) :
        sent[t][i].path = RawPath => Len(sent[t][i].val.ba) = 5

\* Task t runs the body of apply_raw_filter on coefficients that exist (for a
\* design call: get_ba returned them).
HasRawArgs(t) ==
    /\ IsRawCall(t)
    /\ call[t].op = "design_and_apply_filter" =>
           get_ba(call[t].name, call[t].params).exc = "none"

\* The part of the device a raw filter call configures: type, Raw payload,
\* run state.
RemoteState == <<dev[TypPath], dev[RawPath], dev[RunPath]>>

\* C11: once a raw filter call has returned, the device's filter type, Raw
\* payload and run state are the ones that call wrote, and they stay so
\* however often (and however far) the same coefficients and offset are
\* applied again, as long as no other call runs: twice leaves what once left.
C11_Idempotent ==
    \A t \in Tasks :
        ( /\ HasRawArgs(t) /\ Returned(t)
          /\ \A u \in Tasks \ {t} :
                 pc[u] = 0 \/ (HasRawArgs(u) /\ RawArgs(u) = RawArgs(t)) )
        => RemoteState = << <<sent[t][1].val>>, <<sent[t][2].val>>, <<sent[t][3].val>> >>

\* C11 witness: the same apply_raw_filter call has returned twice.
C11_Witness ==
    \E t, u \in Tasks :
        /\ t # u /\ call[t].op = "apply_raw_filter" /\ call[u] = call[t]
        /\ Returned(t) /\ Returned(u)
        /\ RemoteState = << <<"Raw">>, <<sent[u][2].val>>, <<"Run">> >>

\* C12: a raw filter call issues its writes in the order typ=Raw, Raw payload,
\* run=Run, each only after the one before was acknowledged; it issues no
\* Hold and nothing else, and exactly these three when it returns.
C12_RawWriteOrder ==
    \A t \in Tasks : IsRawCall(t) =>
        LET s == sent[t] IN
        /\ Len(s) <= 3
        /\ Len(s) >= 1 => s[1].path = TypPath /\ s[1].val = "Raw"
        /\ Len(s) >= 2 => s[2].path = RawPath /\ s[1].ok
        /\ Len(s) >= 3 => IsRun(s[3]) /\ s[2].ok
        /\ \A i \in 1..Len(s) : ~IsHold(s[i])
        /\ Returned(t) => Len(s) = 3 /\ s[3].ok

\* C12 witness: a designed filter was applied with three acknowledged writes
\* while another raw call stopped at its refused payload write.
C12_Witness ==
    \E t, u \in Tasks :
        /\ call[t].op = "design_and_apply_filter" /\ Returned(t) /\ Len(sent[t]) = 3
        /\ call[u].op = "apply_raw_filter" /\ Raised(u) /\ Len(sent[u]) = 2

\* C13: no applyPID entry point writes to the Pid representation path itself;
\* a PID call that returns has written every gain, limit, setpoint and
\* preload field individually.
C13_PidFieldsIndividually ==
    \A t \in Tasks : IsPidCall(t) =>
        /\ \A i \in 1..Len(sent[t]) : sent[t][i].path # PidPath
        /\ Returned(t) =>
              \A f \in PidFieldPaths : \E i \in 1..Len(sent[t]) : sent[t][i].path = f

\* C20: every coefficient of every Raw payload the device accepted is finite, and a
\* design call whose evaluation divides by zero raises and writes nothing.
C20_NoNonFinite ==
    /\ \A t \in Tasks : \A i \in 1..Len(sent[t]) :
          (sent[t][i].path = RawPath /\ sent[t][i].ok) =>
              \A k \in 1..Len(sent[t][i].val.ba) : IsFinite(sent[t][i].val.ba[k])
    /\ \A t \in Tasks :
          ( /\ call[t].op = "design_and_apply_filter"
            /\ get_ba(call[t].name, call[t].params).exc = "ZeroDivision"
            /\ result[t].kind # "running" )
          => Raised(t) /\ sent[t] = <<>>

\* The context manager has been left after its try block was entered.
LeftAfterTry == phase = "left" /\ cause # "load"

\* How many of the notifications passed to send_signal announce state b.
Announced(b) == Cardinality({i \in 1..Len(notified) : notified[i] = b})

\* C18: whenever the context is left, the flag is False, every entered try
\* block has announced the disconnection and saved the parameters, and
\* get_connection_status returned True only between a successful connect
\* and the end of the exit.
C18_CleanupOnAllPaths ==
    /\ LeftAfterTry =>
          /\ ~connected
          /\ Announced(FALSE) = tries
          /\ saves = tries
    /\ phase = "left" => ~connected
    /\ (status.asked /\ status.val) => status.at \in {"announcing", "connected", "closing"}

\* C19: the bilinear transform is derived at most once per prototype name;
\* what is cached for a name is the derivation's result, a call for a cached
\* name is answered from the cache, and a cached entry never changes or
\* disappears.
C19_DerivedOnce ==
    /\ [](\A n \in CallNames :
            /\ derived[n] <= 1
            /\ cache[n] # <<>> => (derived[n] = 1 /\ cache[n] = <<get_ba_sym(n).val>>)
            /\ derived[n] = 1 => cache[n] # <<>>)
    /\ [][\A n \in CallNames : cache[n] # <<>> => cache'[n] = cache[n]]_vars
    /\ [][\A t \in Tasks :
            (got'[t] # got[t] /\ derived[got'[t].name] = 1) =>
                (got'[t].hit /\ derived' = derived)]_vars

\* C19 witness: every prototype has been derived, and a task's last call was
\* answered from the cache.
C19_Witness ==
    /\ \A n \in names : derived[n] = 1 /\ cache[n] # <<>>
    /\ \E t \in Tasks : got[t].hit /\ got[t].exc = "none"

\* The value of the last update_subtree at key path p that returned.
LastWrite(p) ==
    writes[CHOOSE i \in 1..Len(writes) :
               /\ writes[i].path = p
               /\ \A j \in (i + 1)..Len(writes) : writes[j].path # p].val

\* C14 (as claimed): after any sequence of update_subtree calls, get(path)
\* returns the value of the most recent write at that path.
C14_LastWriteWins ==
    \A i \in 1..Len(writes) :
        /\ Descend(tree, <<>>, writes[i].path).exc = "none"
        /\ Descend(tree, <<>>, writes[i].path).val = AsRead(LastWrite(writes[i].path))

\* C14 (amended): get(path) returns the value of the most recent
\* update_subtree at that path that returned, unless a later one addressed a
\* proper prefix of the path or a path below it; in particular a write is
\* read back at once, and a later write at the same path replaces it.  An
\* update_subtree that raises leaves the tree as it was.
C14_LastWriteWinsOnPath ==
    /\ [](\A i \in 1..Len(writes) :
            (\A j \in (i + 1)..Len(writes) : ~Related(writes[j].path, writes[i].path))
            => /\ Descend(tree, <<>>, writes[i].path).exc = "none"
               /\ Descend(tree, <<>>, writes[i].path).val = AsRead(writes[i].val))
    /\ [][(out'.op = "update" /\ out'.exc # "none") => tree' = tree]_vars
    /\ [][(out'.op = "update" /\ out'.exc = "none" /\ writes' # writes) =>
            Descend(tree', <<>>, out'.path).val = AsRead(writes'[Len(writes')].val)]_vars

\* C14 witness: a value written at a path was replaced by a different one
\* written there later, and a get of that path returned the later one.
C14_Witness ==
    /\ Len(writes) >= 2
    /\ writes[Len(writes)].path = writes[Len(writes) - 1].path
    /\ writes[Len(writes)].val # writes[Len(writes) - 1].val
    /\ out.op = "get" /\ out.exc = "none" /\ out.path = writes[Len(writes)].path
    /\ out.val = AsRead(writes[Len(writes)].val)

\* C15: a get of a path the tree does not hold raises the lookup error
\* (KeyError, the PathNotFound of the mirror) and returns no value, whether a
\* key is missing or the path runs through a leaf.
C15_PathNotFound ==
    (out.op = "get" /\ EntryAt(tree, out.path).t = "absent") =>
        (out.exc = "KeyError" /\ out.val = NoValue)

\* C16: no get and no get_full_tree observes a tree in which an unfinished
\* update_subtree has created a dictionary whose child is not attached yet.
C16_NoTornRead == ~obs.torn

\* The mirror holds the device's value at every path whose change was
\* reported.
InSync ==
    \A path \in changed :
        /\ Get(tree, path).exc = "none"
        /\ Get(tree, path).val = AsRead(LeafValue(device[path]))

\* C17: once the callback is registered and every update the device
\* reported has been handled and applied, the mirror holds the device's
\* value at every changed path, also at those reported before the callback
\* was registered.
C17_EventuallyConsistent == (callback /\ queue = <<>> /\ cb.pc = 0) => InSync

\* The parameters the derived result of a catalog name references, the
\* sampling interval apart.
Referenced(name) == SymbolsOf(get_ba_sym(name).val) \ {"Ts"}

\* The supplied parameters the derived result references.
ReferencedOnly(name, params) ==
    [k \in DOMAIN params \cap Referenced(name) |-> params[k]]

\* Task t's design call for a catalog name has ended.
DesignEnded(t) ==
    /\ call[t].op = "design_and_apply_filter"
    /\ call[t].name \in names
    /\ result[t].kind \in {"returned", "raised"}

\* C21: a design call for a catalog name fails in get_ba with the lookup
\* error of a missing parameter (KeyError, before any write) exactly when a
\* symbol its derived result references has no supplied value; the
\* sampling interval is never asked for, and supplied parameters the result
\* does not reference (a corner frequency for "P", an "offset") change
\* neither the outcome of get_ba nor the coefficients written.
C21_MissingParameter ==
    /\ "F0" \notin Referenced("P")
    /\ \A t \in Tasks : DesignEnded(t) =>
        /\ (Raised(t) /\ result[t].exc = "KeyError" /\ sent[t] = <<>>)
               <=> (Referenced(call[t].name) \ DOMAIN call[t].params # {})
        /\ get_ba(call[t].name, call[t].params)
               = get_ba(call[t].name, ReferencedOnly(call[t].name, call[t].params))
        /\ \A i \in 1..Len(sent[t]) : sent[t][i].path = RawPath =>
               sent[t][i].val.ba
                   = get_ba(call[t].name, ReferencedOnly(call[t].name, call[t].params)).val

\* C21 witness: a "P" design call given a corner frequency and an offset
\* besides K has returned, and a design call that lacks a referenced
\* parameter has raised the lookup error without a write.
C21_Witness ==
    \E t, u \in Tasks :
        /\ DesignEnded(t) /\ call[t].name = "P" /\ Returned(t)
        /\ {"F0", "offset"} \subseteq DOMAIN call[t].params
        /\ DesignEnded(u) /\ Raised(u) /\ result[u].exc = "KeyError" /\ sent[u] = <<>>
        /\ Referenced(call[u].name) \ DOMAIN call[u].params # {}

\* The last call was an evaluation of "P" (the gain K is always supplied).
EvaluatedP == ev.name = "P"

\* C22: get_ba("P", K=k, ...) returns (b0, b1, b2, a1, a2) = (k, 0, 0, 0, 0),
\* whatever sampling interval and other parameters are supplied.
C22_Proportional ==
    EvaluatedP =>
        /\ ev.exc = "none"
        /\ ev.val = << [p |-> ev.params["K"].p, q |-> ev.params["K"].q],
                       Rat(0, 1), Rat(0, 1), Rat(0, 1), Rat(0, 1) >>

\* C22 witness: "P" was evaluated, from the cache, with a negative gain and
\* a sampling interval of the caller's.
C22_Witness ==
    /\ EvaluatedP /\ "Ts" \in DOMAIN ev.params /\ ev.params["K"].p < 0
    /\ ev.exc = "none" /\ ev.val[1].p < 0
    /\ derived["P"] = 1 /\ derived["LP"] = 1

IsStreamCall(t) == call[t].op = "set_stream_target"

\* C23: set_stream_target issues one remote write, to the stream path, and
\* no other (no Hold, no Run): none before it is called, at most one while
\* it runs, exactly one, acknowledged, when it returns; the step that
\* issues it changes nothing the device holds at any other path (run
\* state, filter type, Raw and Pid representations).
C23_StreamWriteOnly ==
    /\ [](\A t \in Tasks : IsStreamCall(t) =>
            /\ Len(sent[t]) <= 1
            /\ \A i \in 1..Len(sent[t]) : sent[t][i].path = StreamPath
            /\ Returned(t) => (Len(sent[t]) = 1 /\ sent[t][1].ok)
            /\ Raised(t) => (Len(sent[t]) = 1 /\ ~sent[t][1].ok))
    /\ [][\A t \in Tasks :
            (IsStreamCall(t) /\ <<pc[t], sent[t], result[t]>>' # <<pc[t], sent[t], result[t]>>)
            => \A path \in Paths \ {StreamPath} : dev'[path] = dev[path]]_vars

\* C23 witness: a stream target was set and acknowledged while a PID call
\* held the channel, and the channel is still held with the Pid type.
C23_Witness ==
    \E t, u \in Tasks :
        /\ IsStreamCall(t) /\ Returned(t) /\ sent[t][1].held
        /\ dev[StreamPath] = <<sent[t][1].val>>
        /\ IsPidCall(u) /\ InFlight(u)
        /\ dev[RunPath] = <<"Hold">> /\ dev[TypPath] = <<"Pid">>

\* The nodes strictly above the node with key path p.
Above(p) == Prefixes(p) \ {p}

\* C24: an update_subtree that returns has made every node above its path a
\* dictionary and the value readable at its path, and what a get returns at
\* any path that is neither a prefix nor an extension of it is as before;
\* update_subtree raises exactly for the empty path and for a path that
\* runs through a leaf, and then the tree is exactly as it was.
C24_WriteFrame ==
    [][out'.op = "update" =>
        /\ (out'.exc # "none") <=>
               (out'.path = <<>> \/ \E n \in Above(out'.path) : tree[n].t = "leaf")
        /\ out'.exc # "none" => tree' = tree
        /\ out'.exc = "none" =>
               /\ \A n \in Above(out'.path) : tree'[n].t = "dict"
               /\ Descend(tree', <<>>, out'.path).exc = "none"
               /\ \A n \in Nodes : ~Related(n, out'.path) =>
                      Descend(tree', <<>>, n) = Descend(tree, <<>>, n)]_vars

\* C24 witness: with the stream target in the tree, a write to channel 0
\* has created the dictionary above it and left the stream target as it
\* was, and a later write below the leaf at channel 0 has raised.
C24_Witness ==
    /\ Len(writes) = 2
    /\ writes[1].path = <<"stream">> /\ writes[2].path = <<"ch", "0">>
    /\ tree[<<"ch">>].t = "dict" /\ tree[<<"ch", "0">>].t = "leaf"
    /\ Descend(tree, <<>>, <<"stream">>).val = AsRead(writes[1].val)
    /\ out.op = "update" /\ out.exc # "none" /\ out.path = <<"ch", "0", "run">>

\* C25: a call passes its completion event to send_signal at most once, and
\* only as its last step: when it has issued every remote write of its
\* method and each was acknowledged; a call that returns has sent exactly
\* its own event, a call with a refused write or a failed validation has
\* sent none, and nothing is written after the event.
C25_SignalAfterSuccess ==
    /\ [](\A t \in Tasks :
            /\ Len(signals[t]) <= 1
            /\ signals[t] # <<>> =>
                   /\ Returned(t)
                   /\ signals[t] = <<Signal(call[t])>>
                   /\ Len(sent[t]) = Len(Program(call[t]))
                   /\ \A i \in 1..Len(sent[t]) : sent[t][i].ok
            /\ Returned(t) => Len(signals[t]) = 1
            /\ (Raised(t) \/ WriteFailed(t)) => signals[t] = <<>>)
    /\ [][\A t \in Tasks : signals[t] # <<>> =>
              (sent'[t] = sent[t] /\ signals'[t] = signals[t])]_vars

\* C25 witness: a PID call has returned with its event sent after its four
\* acknowledged writes, and a stream call whose write was refused has
\* ended without an event.
C25_Witness ==
    \E t, u \in Tasks :
        /\ call[t].op = "apply_pid" /\ Returned(t)
        /\ signals[t] = <<"on_pid_applied">> /\ Len(sent[t]) = 4
        /\ IsStreamCall(u) /\ Raised(u) /\ WriteFailed(u) /\ signals[u] = <<>>

\* A DAC code within the hardware range.
InRange(v) == -MaxCode <= v /\ v <= MaxCode

\* C26: every voltage-limit payload published has both limits within
\* [-32767, 32767], and a set_voltage_limits call with a limit outside has
\* raised ValueError.
C26_LimitsInRange ==
    /\ \A i \in 1..Len(published) : InRange(published[i].low) /\ InRange(published[i].high)
    /\ (limits.called /\ ~(InRange(limits.low) /\ InRange(limits.high)))
           => limits.exc = "ValueError"

====
